---- MODULE Spec2Model ----
(***************************************************************************)
(* A model of stress_test_stream.py: the persistent streaming upload       *)
(* engine.  One streamer task per listener keeps one long-lived POST open, *)
(* feeds it from the async generator body_gen, and reconnects after a      *)
(* fault.  asyncio runs the tasks on one thread, so the code between two   *)
(* suspension points (await / yield) is one atomic action of the model.    *)
(*                                                                         *)
(* Not modelled: wall-clock timestamps of dashboard events, the rich       *)
(* progress bar, and floating point rounding (seconds_sent is kept as the  *)
(* exact number of bytes accounted, i.e. in units of 1/bytes_per_sec s).   *)
(*                                                                         *)
(* Byte strings.  pcm is a memoryview of the audio bytes and every page    *)
(* payload pcm[a:b] is a view of a region of it.  A byte string of the     *)
(* model is therefore a record [lit, lo, hi]: the literal bytes lit        *)
(* followed by the bytes lo+1..hi of pcm.  The audio itself is a length    *)
(* and a pattern of bytes that repeats, so that 100,000 bytes of audio     *)
(* are as cheap to hold as four.                                           *)
(***************************************************************************)
EXTENDS Integers, Sequences, FiniteSets, TLC

VARIABLES
    cfg,                      \* the arguments of streamer and the exploration limits
    pc,                       \* per listener: where the streamer task is suspended
    sleeping,                 \* per listener: argument of the pending asyncio.sleep of streamer
    retry_count,              \* per listener: local retry_count
    current_offset,           \* per listener: nonlocal current_offset
    current_seq,              \* per listener: nonlocal current_seq
    in_interval_wait,         \* per listener: nonlocal in_interval_wait
    interval_wait_remaining,  \* per listener: nonlocal interval_wait_remaining
    gens,                     \* per listener: the live body_gen generators (position, local payload)
    files_sent,               \* global dict files_sent
    seconds_sent,             \* global dict seconds_sent (in bytes, see above)
    hist,                     \* the shared deque dashboard_hist, most recent first
    sent,                     \* history: frames yielded into the current connection
    starts,                   \* history: indices in sent at which a cycle begins
    backoffs,                 \* history: faults since the last response (or the start)
    attempted,                \* history: the listener has made a connection attempt
    responses,                \* history: number of responses received
    unexpected,               \* history: number of unexpected faults
    transients,               \* history: number of transient faults
    cancelled,                \* the listeners whose task was cancelled (task.cancel())
    probe                     \* input and output of the sequence-counter step checked in isolation

vars == <<cfg, pc, sleeping, retry_count, current_offset, current_seq,
          in_interval_wait, interval_wait_remaining, gens, files_sent,
          seconds_sent, hist, sent, starts, backoffs, attempted, responses,
          unexpected, transients, cancelled, probe>>

-----------------------------------------------------------------------------
(* Program constants *)

PAGE == 32768
SEQ_MASK == 16777215
max_retry_delay == 60
UNEXPECTED_PAUSE == 5
HIST_MAXLEN == 20
DEFAULT_STAGGER == 5

(* Exploration bounds *)

MaxTransient == 7
MaxOther == 1
MaxFiles == 1
MaxPcmLen == 4
MaxPage == 3
MaxCycleFiles == 1
SeqSpan == 3
MaxStreamTransient == 2
MaxStreamOther == 1
MaxStreamFiles == 1
MaxPairEvents == 2
MaxHistEvents == 7

-----------------------------------------------------------------------------
(* Arithmetic helpers *)

Min(a, b) == IF a <= b THEN a ELSE b

RECURSIVE Pow2(_)
Pow2(n) == IF n = 0 THEN 1 ELSE 2 * Pow2(n - 1)

\* Python's a & b on non-negative integers, bit by bit.
RECURSIVE BitAnd(_, _)
BitAnd(a, b) ==
    IF a = 0 \/ b = 0 THEN 0
    ELSE (IF a % 2 = 1 /\ b % 2 = 1 THEN 1 ELSE 0) + 2 * BitAnd(a \div 2, b \div 2)

\* Mutant: the bytes in network order.
pack_u32_be(n) ==
    <<(n \div 16777216) % 256, (n \div 65536) % 256, (n \div 256) % 256, n % 256>>

\* struct.pack("<I", n): the four bytes of n, least significant first.
pack_u32_le(n) ==
    <<n % 256, (n \div 256) % 256, (n \div 65536) % 256, (n \div 16777216) % 256>>

\* A byte string: literal bytes, then the bytes lo+1..hi of pcm.
Bytes(lit, lo, hi) == [lit |-> lit, lo |-> lo, hi |-> hi]
Literal(lit) == Bytes(lit, 0, 0)

\* len(b)
BLen(b) == Len(b.lit) + (b.hi - b.lo)

\* a + b for literal bytes a
Cat(a, b) == Bytes(a \o b.lit, b.lo, b.hi)

\* The audio bytes: len bytes, the pattern repeated.
Pcm(len, pattern) == [len |-> len, pattern |-> pattern]
PcmByte(pcm, i) == pcm.pattern[((i - 1) % Len(pcm.pattern)) + 1]

\* make_frame(seq, payload): first 3 bytes of each packed field, then the payload.
make_frame(seq, payload) ==
    Cat(SubSeq(pack_u32_le(seq), 1, 3) \o SubSeq(pack_u32_le(BLen(payload)), 1, 3), payload)

\* Mutant: the end of the slice one byte short.
Slice_short(pcm, a, b) == Bytes(<<>>, Min(a, pcm.len), Min(b - 1, pcm.len))

\* The memoryview slice pcm[a:b] for 0 <= a <= b: both ends clipped to len(pcm).
Slice(pcm, a, b) == Bytes(<<>>, Min(a, pcm.len), Min(b, pcm.len))

\* total_pages = (len(pcm) + PAGE - 1) // PAGE
total_pages(c) == (c.pcm.len + c.page - 1) \div c.page

\* Mutant: the mask forgotten.
next_seq_nowrap(s) == s + 1

\* current_seq = (current_seq + 1) & 0xFFFFFF
next_seq(s) == BitAnd(s + 1, SEQ_MASK)

\* Mutant: the end of the audio counted as one more page.
more_pages_inclusive(off, pcm) == off <= pcm.len

\* while current_offset < len(pcm)
more_pages(off, pcm) == off < pcm.len

\* Mutant: the cap forgotten.
retry_delay_uncapped(rc) == Pow2(rc)

\* retry_delay = min(2 ** retry_count, max_retry_delay)
retry_delay(rc) == Min(Pow2(rc), max_retry_delay)

\* Mutant: the increment forgotten.
inc_retry_skip(rc) == rc

\* retry_count += 1 in the handler of the transient faults
inc_retry(rc) == rc + 1

\* Mutant: the reset forgotten.
reset_retry_keep(rc) == rc

\* retry_count = 0 once session.post has returned a response
reset_retry(rc) == 0

\* Mutant: the exponential schedule used for the other faults too.
unexpected_delay_backoff(rc) == Min(Pow2(rc), max_retry_delay)

\* asyncio.sleep(5) in the handler of the other faults, whatever retry_count is
unexpected_delay(rc) == UNEXPECTED_PAUSE

\* fmt_status: the colour class of a status code.
fmt_status(code) ==
    IF 200 <= code /\ code < 300 THEN "green"
    ELSE IF 300 <= code /\ code < 400 THEN "cyan"
    ELSE IF 400 <= code /\ code < 500 THEN "yellow"
    ELSE "red"

\* Mutant: a deque without maxlen.
appendleft_nocap(h, e) == <<e>> \o h

\* deque(maxlen=20).appendleft(e): the entry at the right end falls out when full.
appendleft(h, e) ==
    IF Len(h) >= HIST_MAXLEN THEN <<e>> \o SubSeq(h, 1, HIST_MAXLEN - 1) ELSE <<e>> \o h

\* One entry of the fault history: the handler taken, the delay it sleeps, and
\* retry_count when the fault was raised and when the sleep begins.
Fault(transient, d, rc0, rc1) ==
    [transient |-> transient, delay |-> d, rc0 |-> rc0, rc1 |-> rc1]

\* One dashboard event (listener, text); the text is kept as kind, number and name.
Event(l, kind, n, name) == [lid |-> l, kind |-> kind, n |-> n, name |-> name]

-----------------------------------------------------------------------------
(* Inputs *)

\* The exception types the first handler names, and one that it does not.
TransientErrors == {"ClientError", "TimeoutError", "ConnectionError"}
UnexpectedErrors == {"RuntimeError"}
Statuses == {200, 503}

\* How far a run of one listener is explored: the number of its transient
\* faults, of its other connection events (unexpected faults and responses),
\* and of its completed files.  A configuration holds one such record per
\* listener.
Limits(t, o, f) == [maxTransient |-> t, maxOther |-> o, maxFiles |-> f]

\* The arguments of streamer, the faults the environment raises, the limits
\* of each listener and the limit on the events of all listeners together
\* (here the sum of the former, which then never binds).
Config(ls, header, pcm, page, errs, lim) ==
    [listeners |-> ls, full_header |-> header, pcm |-> pcm, page |-> page,
     stagger_s |-> DEFAULT_STAGGER, transient |-> errs, lim |-> [l \in ls |-> lim],
     total |-> Cardinality(ls) * (lim.maxTransient + lim.maxOther + lim.maxFiles)]

\* A 12-byte stand-in for the container header: "RIFF", a size, "data" tag bytes.
Header == <<82, 73, 70, 70, 100, 97, 116, 97, 3, 0, 0, 0>>

\* The retry machine explored in depth: one listener, one short page of audio.
MainConfig ==
    Config({"listener01"}, Header, Pcm(1, <<7>>), 2, {"ClientError"},
           Limits(MaxTransient, MaxOther, MaxFiles))

\* The frame sequencer explored in breadth: every PCM content up to MaxPcmLen
\* bytes with every page size up to MaxPage, on a connection without faults.
ByteSamples == {0, 255}
PcmSamples == UNION {{Pcm(n, p) : p \in [1..n -> ByteSamples]} : n \in 0..MaxPcmLen}
CycleConfigs ==
    {Config({"listener01"}, Header, pcm, page, {}, Limits(0, 1, MaxCycleFiles)) :
        pcm \in PcmSamples, page \in 1..MaxPage}

\* 100,000 bytes of audio in pages of PAGE bytes.
ScenarioA ==
    Config({"listener01"}, Header, Pcm(100000, <<1, 2, 3, 5, 8>>), PAGE, {},
           Limits(0, 1, MaxCycleFiles))

\* A file of two pages, the last one short, on connections that fail: the
\* generator is interrupted at every one of its suspension points.
StreamConfig ==
    Config({"listener01"}, Header, Pcm(3, <<7, 8, 9>>), 2, {"TimeoutError"},
           Limits(MaxStreamTransient, MaxStreamOther, MaxStreamFiles))

\* Two listeners streaming the same one-page file; the limit is on the events
\* of both together.
PairConfig ==
    [Config({"listener01", "listener02"}, Header, Pcm(1, <<7>>), 2, {"ClientError"},
            Limits(MaxPairEvents, MaxPairEvents, MaxPairEvents))
        EXCEPT !.total = MaxPairEvents]

\* Two listeners whose endpoint is down: enough faults of both together to
\* fill the event history and push entries out of it.
HistConfig ==
    [Config({"listener01", "listener02"}, Header, Pcm(1, <<7>>), 2, {"ClientError"},
            Limits(MaxHistEvents, 0, 0))
        EXCEPT !.total = MaxHistEvents]

\* The values the sequence counter is stepped from in isolation: the first
\* ones and the last ones before the 24-bit wrap.
SeqSamples == (0..SeqSpan) \cup ((SEQ_MASK - SeqSpan)..SEQ_MASK)

\* The numbers within SeqSpan of a byte boundary of a 24-bit field.
Boundaries == {0, 256, 65536, SEQ_MASK}
NearBoundary ==
    {n \in UNION {(b - SeqSpan)..(b + SeqSpan) : b \in Boundaries} : 0 <= n /\ n <= SEQ_MASK}

\* make_frame on its own: 0xFFFFFF bytes of audio to cut payloads from.
FrameConfig ==
    Config({"listener01"}, Header, Pcm(SEQ_MASK, <<1, 2, 3, 5, 8>>), PAGE, {},
           Limits(0, 0, 0))

\* Payloads: bytes objects, and views of the audio of the lengths above.
FramePayloads ==
    {Literal(<<>>), Literal(<<0>>), Literal(<<255, 0, 255>>), Literal(Header)}
        \cup {Slice(FrameConfig.pcm, 0, n) : n \in NearBoundary}

-----------------------------------------------------------------------------
(* Initial state: main() has registered the listeners and created the tasks *)

InitWith(c) ==
    /\ cfg = c
    /\ pc = [l \in c.listeners |-> "init"]
    /\ sleeping = [l \in c.listeners |-> 0]
    /\ retry_count = [l \in c.listeners |-> 0]
    /\ current_offset = [l \in c.listeners |-> 0]
    /\ current_seq = [l \in c.listeners |-> 0]
    /\ in_interval_wait = [l \in c.listeners |-> FALSE]
    /\ interval_wait_remaining = [l \in c.listeners |-> 0]
    /\ gens = [l \in c.listeners |-> <<>>]
    /\ files_sent = [l \in c.listeners |-> 0]
    /\ seconds_sent = [l \in c.listeners |-> 0]
    /\ hist = <<>>
    /\ sent = [l \in c.listeners |-> <<>>]
    /\ starts = [l \in c.listeners |-> {}]
    /\ backoffs = [l \in c.listeners |-> <<>>]
    /\ attempted = [l \in c.listeners |-> FALSE]
    /\ responses = [l \in c.listeners |-> 0]
    /\ unexpected = [l \in c.listeners |-> 0]
    /\ transients = [l \in c.listeners |-> 0]
    /\ cancelled = {}
    /\ probe = <<>>

Init == InitWith(MainConfig)

InitCycle == \E c \in CycleConfigs \cup {ScenarioA} : InitWith(c)

\* The connection events and completed files of all listeners so far.
RECURSIVE SumOver(_, _)
SumOver(f, S) ==
    IF S = {} THEN 0
    ELSE LET x == CHOOSE y \in S : TRUE IN f[x] + SumOver(f, S \ {x})

Spent ==
    SumOver(transients, cfg.listeners) + SumOver(responses, cfg.listeners)
        + SumOver(unexpected, cfg.listeners) + SumOver(files_sent, cfg.listeners)

genVars == <<current_offset, current_seq, in_interval_wait, interval_wait_remaining,
             files_sent, seconds_sent>>
taskVars == <<pc, sleeping, retry_count, cancelled>>
logVars == <<backoffs, attempted, responses, unexpected, transients>>

-----------------------------------------------------------------------------
(* streamer: the task outside the generator *)

\* Lines 62-73: the startup stagger, then the locals and the retry loop.
Start(l) ==
    /\ pc[l] = "init"
    /\ IF cfg.stagger_s > 0
       THEN /\ pc' = [pc EXCEPT ![l] = "stagger"]
            /\ \E d \in {0, cfg.stagger_s} : sleeping' = [sleeping EXCEPT ![l] = d]
       ELSE /\ pc' = [pc EXCEPT ![l] = "top"]
            /\ UNCHANGED sleeping
    /\ UNCHANGED <<cfg, retry_count, cancelled, genVars, gens, hist, sent, starts, logVars,
                   probe>>

StaggerElapsed(l) ==
    /\ pc[l] = "stagger"
    /\ pc' = [pc EXCEPT ![l] = "top"]
    /\ sleeping' = [sleeping EXCEPT ![l] = 0]
    /\ UNCHANGED <<cfg, retry_count, cancelled, genVars, gens, hist, sent, starts, logVars,
                   probe>>

\* Lines 133-143: the RETRY event when retry_count > 0, then session.post with a
\* fresh body_gen() as its body.
Connect(l) ==
    /\ pc[l] = "top"
    /\ hist' = IF retry_count[l] > 0
               THEN appendleft(hist, Event(l, "RETRY", retry_count[l], ""))
               ELSE hist
    /\ gens' = [gens EXCEPT ![l] = Append(@, [pos |-> "start", payload |-> Literal(<<>>)])]
    /\ pc' = [pc EXCEPT ![l] = "posting"]
    /\ sent' = [sent EXCEPT ![l] = <<>>]
    /\ starts' = [starts EXCEPT ![l] = {1}]
    /\ attempted' = [attempted EXCEPT ![l] = TRUE]
    /\ UNCHANGED <<cfg, sleeping, retry_count, cancelled, genVars, backoffs, responses,
                   unexpected, transients, probe>>

\* Lines 143-149: the response headers arrive, whatever the status.
Respond(l, status) ==
    /\ pc[l] = "posting"
    /\ responses[l] + unexpected[l] < cfg.lim[l].maxOther
    /\ Spent < cfg.total
    /\ retry_count' = [retry_count EXCEPT ![l] = reset_retry(@)]
    /\ hist' = appendleft(hist, Event(l, "STATUS", status, fmt_status(status)))
    /\ pc' = [pc EXCEPT ![l] = "streaming"]
    /\ responses' = [responses EXCEPT ![l] = @ + 1]
    /\ backoffs' = [backoffs EXCEPT ![l] = <<>>]
    /\ UNCHANGED <<cfg, sleeping, cancelled, genVars, gens, sent, starts, attempted,
                   unexpected, transients, probe>>

\* Mutant: the generator of the connection that ended is left running.
end_connection_leak(gs) == gs

\* Leaving the "async with" block, normally or by an exception, releases the
\* connection: the generator that fed it is cancelled where it is suspended.
end_connection(gs) == SubSeq(gs, 1, Len(gs) - 1)

\* Lines 149-150 return: the peer closed the connection without an error; the
\* try block ends and the loop starts over.
Close(l) ==
    /\ pc[l] = "streaming"
    /\ pc' = [pc EXCEPT ![l] = "top"]
    /\ gens' = [gens EXCEPT ![l] = end_connection(@)]
    /\ UNCHANGED <<cfg, sleeping, retry_count, cancelled, genVars, hist, sent, starts,
                   logVars, probe>>

\* Mutant: the totals of the listener start over after a fault.
on_fault_progress_reset(l) ==
    /\ files_sent' = [files_sent EXCEPT ![l] = 0]
    /\ seconds_sent' = [seconds_sent EXCEPT ![l] = 0]
    /\ UNCHANGED <<current_offset, current_seq, in_interval_wait, interval_wait_remaining>>

\* Lines 152-179: neither handler assigns to the state of body_gen or to the
\* entries of files_sent and seconds_sent.
on_fault_progress(l) == UNCHANGED genVars

\* Lines 152-171: aiohttp.ClientError, asyncio.TimeoutError or ConnectionError,
\* raised by session.post or while waiting on the response.
TransientFault(l, e) ==
    /\ pc[l] \in {"posting", "streaming"}
    /\ transients[l] < cfg.lim[l].maxTransient
    /\ Spent < cfg.total
    /\ transients' = [transients EXCEPT ![l] = @ + 1]
    /\ LET rc == inc_retry(retry_count[l])
           d == retry_delay(rc)
       IN /\ retry_count' = [retry_count EXCEPT ![l] = rc]
          /\ hist' = appendleft(appendleft(hist, Event(l, "ERROR", 0, e)),
                                Event(l, "Retry in", d, ""))
          /\ sleeping' = [sleeping EXCEPT ![l] = d]
          /\ backoffs' = [backoffs EXCEPT ![l] =
                              Append(@, Fault(TRUE, d, retry_count[l], rc))]
    /\ pc' = [pc EXCEPT ![l] = "backoff"]
    /\ gens' = [gens EXCEPT ![l] = end_connection(@)]
    /\ on_fault_progress(l)
    /\ UNCHANGED <<cfg, cancelled, sent, starts, attempted, responses, unexpected, probe>>

\* Lines 173-179: any other Exception.
UnexpectedFault(l, e) ==
    /\ pc[l] \in {"posting", "streaming"}
    /\ responses[l] + unexpected[l] < cfg.lim[l].maxOther
    /\ Spent < cfg.total
    /\ hist' = appendleft(hist, Event(l, "UNEXPECTED", 0, e))
    /\ LET d == unexpected_delay(retry_count[l])
       IN /\ sleeping' = [sleeping EXCEPT ![l] = d]
          /\ backoffs' = [backoffs EXCEPT ![l] =
                              Append(@, Fault(FALSE, d, retry_count[l], retry_count[l]))]
    /\ unexpected' = [unexpected EXCEPT ![l] = @ + 1]
    /\ pc' = [pc EXCEPT ![l] = "backoff"]
    /\ gens' = [gens EXCEPT ![l] = end_connection(@)]
    /\ on_fault_progress(l)
    /\ UNCHANGED <<cfg, retry_count, cancelled, sent, starts, attempted, responses,
                   transients, probe>>

\* Mutant: the task gives up after its second retry.
loop_again_giveup(rc) == IF rc >= 2 THEN "failed" ELSE "top"

\* Line 75: while True, the retry loop has no exit, whatever retry_count is.
loop_again(rc) == "top"

\* Lines 171 and 179 return: the sleep is over, the loop starts over.
BackoffElapsed(l) ==
    /\ pc[l] = "backoff"
    /\ pc' = [pc EXCEPT ![l] = loop_again(retry_count[l])]
    /\ sleeping' = [sleeping EXCEPT ![l] = 0]
    /\ UNCHANGED <<cfg, retry_count, cancelled, genVars, gens, hist, sent, starts, logVars,
                   probe>>

\* Mutant: CancelledError taken for an ordinary Exception inside the try block
\* (as where it derives from Exception): logged, slept on, retried.
Cancel_caught(l) ==
    /\ l \notin cancelled
    /\ cancelled' = cancelled \cup {l}
    /\ IF pc[l] \in {"posting", "streaming"}
       THEN /\ hist' = appendleft(hist, Event(l, "UNEXPECTED", 0, "CancelledError"))
            /\ pc' = [pc EXCEPT ![l] = "backoff"]
            /\ sleeping' = [sleeping EXCEPT ![l] = UNEXPECTED_PAUSE]
       ELSE /\ hist' = hist
            /\ pc' = [pc EXCEPT ![l] = "cancelled"]
            /\ sleeping' = [sleeping EXCEPT ![l] = 0]
    /\ gens' = [gens EXCEPT ![l] = <<>>]
    /\ UNCHANGED <<cfg, retry_count, genVars, sent, starts, logVars, probe>>

\* Lines 253-256 and 152-179: the task is cancelled (gather is cancelled on
\* interrupt).  CancelledError is raised at the await the task is suspended
\* in; it is a BaseException, so neither handler of streamer catches it: the
\* async with block releases the connection and the coroutine ends.
Cancel(l) ==
    /\ l \notin cancelled
    /\ cancelled' = cancelled \cup {l}
    /\ pc' = [pc EXCEPT ![l] = "cancelled"]
    /\ sleeping' = [sleeping EXCEPT ![l] = 0]
    /\ gens' = [gens EXCEPT ![l] = <<>>]
    /\ UNCHANGED <<cfg, retry_count, genVars, hist, sent, starts, logVars, probe>>

-----------------------------------------------------------------------------
(* body_gen: the request body; it runs while its connection is open *)

Running(l, g, pos) ==
    /\ pc[l] \in {"posting", "streaming"}
    /\ g \in DOMAIN gens[l]
    /\ gens[l][g].pos = pos

\* Line 88: yield make_frame(0, full_header).
yield_header(l, g) ==
    /\ sent' = [sent EXCEPT ![l] = Append(@, make_frame(0, Literal(cfg.full_header)))]
    /\ gens' = [gens EXCEPT ![l][g] = [pos |-> "hdr", payload |-> Literal(<<>>)]]

\* Mutant: the file is announced but not counted.
inc_files_skip(n) == n

\* files_sent[listener_id] += 1
inc_files(n) == n + 1

\* Lines 94-96 and 110-128: the test of the page loop with sequence counter seq
\* and offset off, then either the next page frame or the end of the file.
page_or_finish(l, g, seq, off) ==
    IF more_pages(off, cfg.pcm)
    THEN LET payload == Slice(cfg.pcm, off, off + cfg.page)
         IN /\ sent' = [sent EXCEPT ![l] = Append(@, make_frame(seq, payload))]
            /\ gens' = [gens EXCEPT ![l][g] = [pos |-> "page", payload |-> payload]]
            /\ UNCHANGED <<hist, files_sent, in_interval_wait, starts>>
    ELSE /\ files_sent[l] < cfg.lim[l].maxFiles
         /\ Spent < cfg.total
         /\ hist' = appendleft(hist, Event(l, "DONE", 0, ""))
         /\ files_sent' = [files_sent EXCEPT ![l] = inc_files(@)]
         /\ in_interval_wait' = [in_interval_wait EXCEPT ![l] = TRUE]
         /\ gens' = [gens EXCEPT ![l][g] = [pos |-> "rest", payload |-> @.payload]]
         /\ starts' = [starts EXCEPT ![l] = @ \cup {Len(sent[l]) + 1}]
         /\ UNCHANGED sent

\* Mutant: a new generator resumes the file where the last one stopped.
GenStart_resume(l, g) ==
    /\ Running(l, g, "start")
    /\ IF current_seq[l] > 0
       THEN /\ page_or_finish(l, g, current_seq[l], current_offset[l])
            /\ UNCHANGED <<current_offset, current_seq, interval_wait_remaining,
                           seconds_sent>>
       ELSE /\ yield_header(l, g)
            /\ UNCHANGED <<genVars, hist, starts>>
    /\ UNCHANGED <<cfg, taskVars, logVars, probe>>

\* Lines 80-88: the generator is started by the connection; a pending rest is
\* completed first when interval_wait_remaining says so.
GenStart(l, g) ==
    /\ Running(l, g, "start")
    /\ IF in_interval_wait[l] /\ interval_wait_remaining[l] > 0
       THEN /\ gens' = [gens EXCEPT ![l][g].pos = "wait"]
            /\ UNCHANGED sent
       ELSE yield_header(l, g)
    /\ UNCHANGED <<cfg, taskVars, genVars, hist, starts, logVars, probe>>

\* Mutant: the offset of the file before is kept.
reset_offset_keep(off) == off

\* current_offset = 0 after the header frame
reset_offset(off) == 0

\* Lines 89-96: the header frame was taken; reset the counters, first page.
GenAfterHeader(l, g) ==
    /\ Running(l, g, "hdr")
    /\ current_seq' = [current_seq EXCEPT ![l] = 1]
    /\ current_offset' = [current_offset EXCEPT ![l] = reset_offset(@)]
    /\ page_or_finish(l, g, 1, reset_offset(current_offset[l]))
    /\ UNCHANGED <<cfg, taskVars, interval_wait_remaining, seconds_sent, logVars, probe>>

\* Mutant: one total for all listeners instead of one entry per listener.
add_seconds_all(ss, l, n) == [x \in DOMAIN ss |-> ss[x] + n]

\* seconds_sent[listener_id] += n
add_seconds(ss, l, n) == [ss EXCEPT ![l] = @ + n]

\* Lines 97-108: the page frame was taken; advance the counters and the totals,
\* then sleep page_dur.
GenAfterPage(l, g) ==
    /\ Running(l, g, "page")
    /\ seconds_sent[l] < (cfg.lim[l].maxFiles + 1) * cfg.pcm.len
    /\ current_seq' = [current_seq EXCEPT ![l] = next_seq(@)]
    /\ current_offset' = [current_offset EXCEPT ![l] = @ + cfg.page]
    /\ seconds_sent' = add_seconds(seconds_sent, l,
                                    Min(cfg.page, BLen(gens[l][g].payload)))
    /\ gens' = [gens EXCEPT ![l][g].pos = "pace"]
    /\ UNCHANGED <<cfg, taskVars, in_interval_wait, interval_wait_remaining, files_sent,
                   hist, sent, starts, logVars, probe>>

\* Line 108 returns: the pacing sleep is over, back to the test of the page loop.
GenPaceElapsed(l, g) ==
    /\ Running(l, g, "pace")
    /\ page_or_finish(l, g, current_seq[l], current_offset[l])
    /\ UNCHANGED <<cfg, taskVars, current_offset, current_seq, interval_wait_remaining,
                   seconds_sent, logVars, probe>>

\* Lines 82-84 and 128-130 return: the rest is over; clear the flags and start
\* the next cycle with its header frame.
GenWaitElapsed(l, g) ==
    /\ \/ Running(l, g, "rest")
       \/ Running(l, g, "wait")
    /\ in_interval_wait' = [in_interval_wait EXCEPT ![l] = FALSE]
    /\ interval_wait_remaining' = [interval_wait_remaining EXCEPT ![l] = 0]
    /\ yield_header(l, g)
    /\ UNCHANGED <<cfg, taskVars, current_offset, current_seq, files_sent, seconds_sent,
                   hist, starts, logVars, probe>>

-----------------------------------------------------------------------------

Listeners == cfg.listeners

Next ==
    \/ \E l \in Listeners : Start(l)
    \/ \E l \in Listeners : StaggerElapsed(l)
    \/ \E l \in Listeners : Connect(l)
    \/ \E l \in Listeners, s \in Statuses : Respond(l, s)
    \/ \E l \in Listeners : Close(l)
    \/ \E l \in Listeners, e \in cfg.transient : TransientFault(l, e)
    \/ \E l \in Listeners, e \in UnexpectedErrors : UnexpectedFault(l, e)
    \/ \E l \in Listeners : BackoffElapsed(l)
    \/ \E l \in Listeners : \E g \in DOMAIN gens[l] : GenStart(l, g)
    \/ \E l \in Listeners : \E g \in DOMAIN gens[l] : GenAfterHeader(l, g)
    \/ \E l \in Listeners : \E g \in DOMAIN gens[l] : GenAfterPage(l, g)
    \/ \E l \in Listeners : \E g \in DOMAIN gens[l] : GenPaceElapsed(l, g)
    \/ \E l \in Listeners : \E g \in DOMAIN gens[l] : GenWaitElapsed(l, g)

Spec == Init /\ [][Next]_vars

\* The same streamer with the two-page file.
InitStream == InitWith(StreamConfig)

SpecStream == InitStream /\ [][Next]_vars

\* The scheduling of asyncio: a sleep that was started returns when its time
\* is over, and a task that can run is run.
Fairness ==
    /\ WF_vars(Start("listener01"))
    /\ WF_vars(StaggerElapsed("listener01"))
    /\ WF_vars(BackoffElapsed("listener01"))
    /\ WF_vars(Connect("listener01"))

SpecLive == InitStream /\ [][Next]_vars /\ Fairness

\* The streamer with the two-page file, and a cancellation at any moment.
NextCancel ==
    \/ Next
    \/ \E l \in Listeners : Cancel(l)

SpecCancel == InitStream /\ [][NextCancel]_vars

\* Two streamer tasks on the one event loop.
InitPair == InitWith(PairConfig)

SpecPair == InitPair /\ [][Next]_vars

\* Line 97 alone: the step of the sequence counter from a sampled value.
ProbeSeq(s) ==
    /\ probe' = <<s, next_seq(s)>>
    /\ UNCHANGED <<cfg, taskVars, genVars, gens, hist, sent, starts, logVars>>

\* Two streamer tasks whose connections are refused before the request body is
\* read: session.post raises, the handler logs and sleeps, the loop retries.
InitHist == InitWith(HistConfig)

NextHist ==
    \/ \E l \in Listeners : Start(l)
    \/ \E l \in Listeners : StaggerElapsed(l)
    \/ \E l \in Listeners : Connect(l)
    \/ \E l \in Listeners, e \in cfg.transient : TransientFault(l, e)
    \/ \E l \in Listeners : BackoffElapsed(l)

SpecHist == InitHist /\ [][NextHist]_vars

\* Lines 27-33 alone: make_frame applied to a sampled sequence and payload.
ProbeFrame(seq, payload) ==
    /\ probe' = <<seq, payload, make_frame(seq, payload)>>
    /\ UNCHANGED <<cfg, taskVars, genVars, gens, hist, sent, starts, logVars>>

InitFrame == InitWith(FrameConfig)

NextFrame == \E seq \in NearBoundary : \E payload \in FramePayloads : ProbeFrame(seq, payload)

SpecFrame == InitFrame /\ [][NextFrame]_vars

\* A connection that stays up: the frame sequencer without faults.
NextCycle ==
    \/ \E l \in Listeners : Start(l)
    \/ \E l \in Listeners : StaggerElapsed(l)
    \/ \E l \in Listeners : Connect(l)
    \/ \E l \in Listeners, s \in Statuses : Respond(l, s)
    \/ \E l \in Listeners : \E g \in DOMAIN gens[l] : GenStart(l, g)
    \/ \E l \in Listeners : \E g \in DOMAIN gens[l] : GenAfterHeader(l, g)
    \/ \E l \in Listeners : \E g \in DOMAIN gens[l] : GenAfterPage(l, g)
    \/ \E l \in Listeners : \E g \in DOMAIN gens[l] : GenPaceElapsed(l, g)
    \/ \E l \in Listeners : \E g \in DOMAIN gens[l] : GenWaitElapsed(l, g)
    \/ \E s \in SeqSamples : ProbeSeq(s)

SpecCycle == InitCycle /\ [][NextCycle]_vars

-----------------------------------------------------------------------------
(* Reading the frames that were sent *)

frame_seq(f) == f.lit[1] + 256 * f.lit[2] + 65536 * f.lit[3]
frame_len(f) == f.lit[4] + 256 * f.lit[5] + 65536 * f.lit[6]
frame_payload(f) == Bytes(SubSeq(f.lit, 7, Len(f.lit)), f.lo, f.hi)

\* The bytes of a byte string, one by one.
Content(b) == b.lit \o [i \in 1..(b.hi - b.lo) |-> PcmByte(cfg.pcm, b.lo + i)]

IsHeaderFrame(f) ==
    /\ frame_seq(f) = 0
    /\ frame_len(f) = Len(cfg.full_header)
    /\ BLen(frame_payload(f)) = Len(cfg.full_header)
    /\ Content(frame_payload(f)) = cfg.full_header

\* The cycle of listener l that begins at index a of sent[l]: its last index,
\* whether it ran to the end of the file, and its frames.
CycleEnd(l, a) ==
    LET later == {b \in starts[l] : b > a}
    IN IF later = {} THEN Len(sent[l])
       ELSE (CHOOSE b \in later : \A c \in later : b <= c) - 1
CycleDone(l, a) == \E b \in starts[l] : b > a
Cycle(l, a) == SubSeq(sent[l], a, CycleEnd(l, a))
Begun(l) == {a \in starts[l] : a <= Len(sent[l])}

RECURSIVE Concat(_)
Concat(ss) == IF ss = <<>> THEN <<>> ELSE Head(ss) \o Concat(Tail(ss))

\* The payloads of the page frames of a cycle, in the order sent.
PagePayloads(cyc) == [i \in 1..(Len(cyc) - 1) |-> frame_payload(cyc[i + 1])]

\* ceil(L / P) for L >= 0, P >= 1, by its definition.
Ceil(L, P) == CHOOSE n \in 0..L : n * P >= L /\ (n = 0 \/ (n - 1) * P < L)

AllTransient(bs) == \A i \in DOMAIN bs : bs[i].transient

\* 2, 4, 8, 16, 32, 60, 60, ...
BackoffSchedule(k) == IF k <= 5 THEN Pow2(k) ELSE 60

-----------------------------------------------------------------------------
(* Claims *)

\* C1: when the faults of a listener since its last response (or since its
\* start) are k transient faults and nothing else, the k-th of them is followed
\* by a sleep of 2, 4, 8, 16, 32, 60, 60, ... seconds, and no sleep after a
\* transient fault is longer than 60 seconds.
C1_BackoffSchedule ==
    \A l \in Listeners :
        /\ AllTransient(backoffs[l]) =>
               /\ \A k \in DOMAIN backoffs[l] : backoffs[l][k].delay = BackoffSchedule(k)
               /\ pc[l] = "backoff" /\ backoffs[l] # <<>> =>
                      sleeping[l] = BackoffSchedule(Len(backoffs[l]))
        /\ \A k \in DOMAIN backoffs[l] : backoffs[l][k].delay <= 60
        /\ pc[l] = "backoff" => sleeping[l] <= 60

C1_Witness ==
    \E l \in Listeners :
        /\ pc[l] = "backoff"
        /\ sleeping[l] = 60
        /\ [k \in DOMAIN backoffs[l] |-> backoffs[l][k].delay] = <<2, 4, 8, 16, 32, 60, 60>>
        /\ AllTransient(backoffs[l])

\* C2: while the response of a connection is being awaited to end (the state
\* right after session.post returned) retry_count is 0, and the first transient
\* fault after a response is followed by a sleep of 2 seconds.
C2_ResetOnSuccess ==
    \A l \in Listeners :
        /\ pc[l] = "streaming" => retry_count[l] = 0
        /\ responses[l] > 0 =>
               \A k \in DOMAIN backoffs[l] :
                   (backoffs[l][k].transient
                        /\ (\A j \in 1..(k - 1) : ~backoffs[l][j].transient))
                   => (backoffs[l][k].delay = 2 /\ backoffs[l][k].rc0 = 0)

C2_Witness ==
    \E l \in Listeners :
        /\ responses[l] = 1
        /\ transients[l] >= 3
        /\ Len(backoffs[l]) = 1
        /\ backoffs[l][1].transient
        /\ pc[l] = "backoff"
        /\ sleeping[l] = 2
        /\ \E i \in DOMAIN hist : hist[i].kind = "STATUS" /\ hist[i].n = 503

\* C3: a fault of the other class is followed by a sleep of exactly 5 seconds,
\* whatever retry_count is, and the task stays in the retry loop.
C3_UnexpectedPause ==
    \A l \in Listeners :
        /\ \A k \in DOMAIN backoffs[l] :
               ~backoffs[l][k].transient => backoffs[l][k].delay = 5
        /\ pc[l] = "backoff" /\ backoffs[l] # <<>>
              /\ ~backoffs[l][Len(backoffs[l])].transient => sleeping[l] = 5
        /\ unexpected[l] > 0 => pc[l] \in {"backoff", "top", "posting", "streaming"}

C3_Witness ==
    \E l \in Listeners :
        /\ pc[l] = "backoff"
        /\ sleeping[l] = 5
        /\ retry_count[l] >= 3
        /\ ~backoffs[l][Len(backoffs[l])].transient

\* C4 as claimed: every fault, transient or unexpected, raises retry_count by 1.
C4_EveryFaultIncrements ==
    \A l \in Listeners :
        \A k \in DOMAIN backoffs[l] : backoffs[l][k].rc1 = backoffs[l][k].rc0 + 1

\* C4 as amended: a transient fault raises retry_count by exactly 1; an
\* unexpected fault leaves it as it is.
C4_TransientIncrements ==
    \A l \in Listeners :
        /\ \A k \in DOMAIN backoffs[l] :
               /\ backoffs[l][k].transient => backoffs[l][k].rc1 = backoffs[l][k].rc0 + 1
               /\ ~backoffs[l][k].transient => backoffs[l][k].rc1 = backoffs[l][k].rc0
        /\ pc[l] = "backoff" /\ backoffs[l] # <<>> =>
               retry_count[l] = backoffs[l][Len(backoffs[l])].rc1

C4_Witness ==
    \E l \in Listeners :
        /\ Len(backoffs[l]) >= 3
        /\ \E k \in DOMAIN backoffs[l] : backoffs[l][k].transient
        /\ \E k \in DOMAIN backoffs[l] : ~backoffs[l][k].transient /\ backoffs[l][k].rc0 > 0

\* C5 as claimed: every connection attempt of a listener after its first one
\* begins by adding a "RETRY #n" event of that listener to the history; the
\* first attempt adds none.
C5_RetryEventOnLaterAttempts ==
    [][\A l \in Listeners :
           pc[l] = "top" /\ pc'[l] = "posting" =>
               IF attempted[l]
               THEN /\ hist' # hist
                    /\ hist'[1].lid = l
                    /\ hist'[1].kind = "RETRY"
               ELSE hist' = hist]_vars

\* C6: the first frame of every connection and the first frame of every cycle
\* on it is the header frame: sequence 0, the container header as its payload.
C6_HeaderFirst ==
    \A l \in Listeners :
        /\ \A a \in Begun(l) : IsHeaderFrame(sent[l][a])
        /\ sent[l] # <<>> => 1 \in Begun(l)

C6_Witness ==
    \E l \in Listeners :
        /\ transients[l] >= 2
        /\ responses[l] >= 1
        /\ Cardinality(Begun(l)) >= 2
        /\ files_sent[l] >= 1

\* C7: a cycle that ran to the end of the file is one header frame and then
\* ceil(L / P) page frames; every page payload but the last has P bytes, and
\* the page payloads in the order sent make up the PCM bytes: they are the
\* regions of pcm one after the other from 0 to L, and where the audio is
\* given byte by byte their bytes joined are its bytes.
C7_CycleFrames ==
    \A l \in Listeners :
        \A a \in Begun(l) :
            CycleDone(l, a) =>
                LET cyc == Cycle(l, a)
                    pages == PagePayloads(cyc)
                IN /\ Len(cyc) = 1 + Ceil(cfg.pcm.len, cfg.page)
                   /\ Len(pages) = total_pages(cfg)
                   /\ IsHeaderFrame(cyc[1])
                   /\ \A i \in 2..Len(cyc) :
                          /\ frame_seq(cyc[i]) # 0
                          /\ frame_len(cyc[i]) = BLen(frame_payload(cyc[i]))
                   /\ \A i \in 1..(Len(pages) - 1) : BLen(pages[i]) = cfg.page
                   /\ \A i \in 1..Len(pages) :
                          /\ pages[i].lit = <<>>
                          /\ pages[i].lo = (IF i = 1 THEN 0 ELSE pages[i - 1].hi)
                          /\ pages[i].lo < pages[i].hi
                   /\ cfg.pcm.len > 0 => pages[Len(pages)].hi = cfg.pcm.len
                   /\ cfg.pcm.len <= Len(cfg.pcm.pattern) =>
                          Concat([i \in 1..Len(pages) |-> Content(pages[i])])
                              = Content(Slice(cfg.pcm, 0, cfg.pcm.len))

C7_Witness ==
    \E l \in Listeners :
        /\ cfg.page = 3
        /\ cfg.pcm = Pcm(4, <<0, 255, 255, 0>>)
        /\ \E a \in Begun(l) : CycleDone(l, a) /\ Len(Cycle(l, a)) = 3
        /\ files_sent[l] = 1

\* C8: with 100,000 bytes of PCM and pages of 32,768 bytes a cycle that ran to
\* the end of the file is the header frame and then 4 page frames with
\* payloads of 32768, 32768, 32768 and 2696 bytes, in that order.
C8_ScenarioA ==
    \A l \in Listeners :
        \A a \in Begun(l) :
            cfg.pcm.len = 100000 /\ cfg.page = 32768 /\ CycleDone(l, a) =>
                LET cyc == Cycle(l, a)
                IN /\ IsHeaderFrame(cyc[1])
                   /\ [i \in 1..(Len(cyc) - 1) |-> BLen(frame_payload(cyc[i + 1]))]
                          = <<32768, 32768, 32768, 2696>>

\* C8 as amended: the same, with 32768, 32768, 32768 and 1696 bytes
\* (100,000 - 3 * 32,768 = 1,696).
C8_ScenarioA_1696 ==
    \A l \in Listeners :
        \A a \in Begun(l) :
            cfg.pcm.len = 100000 /\ cfg.page = 32768 /\ CycleDone(l, a) =>
                LET cyc == Cycle(l, a)
                IN /\ IsHeaderFrame(cyc[1])
                   /\ [i \in 1..(Len(cyc) - 1) |-> BLen(frame_payload(cyc[i + 1]))]
                          = <<32768, 32768, 32768, 1696>>
                   /\ [i \in 1..(Len(cyc) - 1) |-> frame_len(cyc[i + 1])]
                          = <<32768, 32768, 32768, 1696>>
                   /\ \A i \in 2..Len(cyc) : frame_seq(cyc[i]) = i - 1

C8_Witness ==
    \E l \in Listeners :
        /\ cfg.pcm.len = 100000
        /\ cfg.page = 32768
        /\ files_sent[l] = 1
        /\ \E a \in Begun(l) : CycleDone(l, a)

\* C9: the frames of a cycle carry the sequence numbers 0, 1, 2, 3, ... in the
\* order sent, and the step of the counter gives 0 only from 0xFFFFFF, and the
\* successor everywhere else.
C9_SequenceNumbers ==
    /\ \A l \in Listeners :
           \A a \in Begun(l) :
               LET cyc == Cycle(l, a)
               IN \A i \in 1..Len(cyc) : frame_seq(cyc[i]) = i - 1
    /\ probe # <<>> =>
           /\ probe[2] = (IF probe[1] = 16777215 THEN 0 ELSE probe[1] + 1)
           /\ probe[2] = 0 <=> probe[1] = 16777215

C9_Witness ==
    /\ probe = <<16777215, 0>>
    /\ \E l \in Listeners : \E a \in Begun(l) : Len(Cycle(l, a)) = 5

\* C10: a listener has at most one live body generator, one exactly while its
\* connection is open and none otherwise, so a new connection begins only
\* after the generator of the previous one is gone.
C10_OneSession ==
    \A l \in Listeners :
        /\ Len(gens[l]) <= 1
        /\ pc[l] \in {"posting", "streaming"} <=> Len(gens[l]) = 1

C10_Witness ==
    \E l \in Listeners :
        /\ transients[l] >= 1
        /\ responses[l] >= 1
        /\ pc[l] = "posting"
        /\ Len(gens[l]) = 1
        /\ gens[l][1].pos = "page"

\* C11: no step lowers files_sent or seconds_sent of a listener, and a step
\* that moves the streamer task (a response, a close, a fault, the end of a
\* backoff, a reconnect) leaves both as they are.
C11_CountersPersist ==
    [][\A l \in Listeners :
           /\ files_sent'[l] >= files_sent[l]
           /\ seconds_sent'[l] >= seconds_sent[l]
           /\ pc'[l] # pc[l] =>
                  /\ files_sent'[l] = files_sent[l]
                  /\ seconds_sent'[l] = seconds_sent[l]]_vars

C11_Witness ==
    \E l \in Listeners :
        /\ pc[l] = "posting"
        /\ sent[l] = <<>>
        /\ transients[l] >= 1
        /\ backoffs[l] # <<>>
        /\ files_sent[l] = 1
        /\ seconds_sent[l] >= cfg.pcm.len

\* The state of one listener: its task, its generator and its counters.
Own(l) ==
    <<pc[l], sleeping[l], retry_count[l], current_offset[l], current_seq[l],
      in_interval_wait[l], gens[l], files_sent[l], seconds_sent[l]>>

\* C12: a step changes the state of at most one listener (retry count, offset,
\* sequence counter, files-sent and seconds-sent entries, position of the task
\* and of the generator): whatever one listener does, a fault included, every
\* other listener is left where it was.
C12_Independent ==
    [][\A l1 \in Listeners : \A l2 \in Listeners \ {l1} :
           Own(l1)' # Own(l1) => Own(l2)' = Own(l2)]_vars

C12_Witness ==
    /\ pc["listener01"] = "backoff"
    /\ retry_count["listener01"] = 1
    /\ files_sent["listener01"] = 0
    /\ seconds_sent["listener01"] = 0
    /\ retry_count["listener02"] = 0
    /\ files_sent["listener02"] = 1
    /\ seconds_sent["listener02"] = 1
    /\ pc["listener02"] = "posting"

\* C13: a listener that is sleeping after a fault, transient or unexpected,
\* eventually makes a new connection attempt, however many faults came
\* before; and a listener that has started eventually makes its first one.
C13_AlwaysRetries ==
    /\ (pc["listener01"] = "backoff") ~> (pc["listener01"] = "posting")
    /\ (pc["listener01"] = "top") ~> (pc["listener01"] = "posting")

C13_Witness ==
    /\ pc["listener01"] = "posting"
    /\ transients["listener01"] >= 2
    /\ unexpected["listener01"] >= 1
    /\ retry_count["listener01"] >= 2

\* Decoding the layout: 3 bytes of sequence, 3 bytes of length n, both least
\* significant byte first, then n bytes of payload.
Take(b, n) ==
    IF n <= Len(b.lit) THEN Bytes(SubSeq(b.lit, 1, n), b.lo, b.lo)
    ELSE Bytes(b.lit, b.lo, b.lo + (n - Len(b.lit)))
decode(f) == <<frame_seq(f), Take(frame_payload(f), frame_len(f))>>
LE3(n) == <<n % 256, (n \div 256) % 256, (n \div 65536) % 256>>

\* C14: for a sequence and a payload length in 0..0xFFFFFF the frame is the 3
\* bytes of the sequence little-endian, the 3 bytes of the length
\* little-endian and the payload unchanged, and decoding it gives the
\* sequence and the payload back.
C14_FrameRoundTrip ==
    Len(probe) = 3 =>
        LET seq == probe[1]
            payload == probe[2]
            f == probe[3]
        IN /\ BLen(f) = 6 + BLen(payload)
           /\ SubSeq(f.lit, 1, 3) = LE3(seq)
           /\ SubSeq(f.lit, 4, 6) = LE3(BLen(payload))
           /\ frame_payload(f) = payload
           /\ decode(f) = <<seq, payload>>
           /\ BLen(payload) <= Len(Header) =>
                  SubSeq(Content(f), 7, BLen(f)) = Content(payload)

C14_Witness ==
    /\ Len(probe) = 3
    /\ probe[1] = 65536
    /\ BLen(probe[2]) = 16777215
    /\ probe[3].lit = <<0, 0, 1, 255, 255, 255>>

\* C15: the history never holds more than 20 entries, and a step that changes
\* it puts its one or two new events at the front, moves the entries it had
\* back by as many places in their order, and drops from the far end exactly
\* those that no longer fit into the 20, whichever listener the events are of.
C15_HistBounded ==
    [][/\ Len(hist) <= 20
       /\ Len(hist') <= 20
       /\ hist' # hist =>
              \E k \in 1..2 :
                  /\ Len(hist') = Min(Len(hist) + k, 20)
                  /\ \A i \in (k + 1)..Len(hist') : hist'[i] = hist[i - k]
                  /\ \A i \in 1..k : hist'[i].kind \in {"ERROR", "Retry in", "RETRY"}]_vars

\* The history is full, holds events of both listeners, and its oldest entry
\* is a "Retry in" event: the ERROR event added just before it is gone.
C15_Witness ==
    /\ Len(hist) = 20
    /\ \A l \in Listeners : \E i \in DOMAIN hist : hist[i].lid = l
    /\ hist[20].kind = "Retry in"
    /\ hist[1].kind = "RETRY"

\* C16 as claimed: a listener that has made a connection attempt is about to
\* make the next one only after a fault and a sleep of at least 2 seconds:
\* whenever it stands at the top of the retry loop again, a fault has occurred
\* on its last connection and the sleep that followed was 2 seconds or more.
C16_ReconnectOnlyAfterBackoff ==
    \A l \in Listeners :
        pc[l] = "top" /\ attempted[l] =>
            /\ backoffs[l] # <<>>
            /\ backoffs[l][Len(backoffs[l])].delay >= 2

\* The DONE events of listener l in the history.
DoneEvents(l) == {i \in DOMAIN hist : hist[i].lid = l /\ hist[i].kind = "DONE"}

\* C17: as long as no entry has left the history, files_sent of a listener is
\* the number of its DONE events, at every suspension point; and when the
\* generator is in the rest after a file the last frame sent was the last page
\* of the file, the file is counted and its DONE event is in the history.
C17_DoneCounted ==
    \A l \in Listeners :
        /\ Len(hist) < 20 => files_sent[l] = Cardinality(DoneEvents(l))
        /\ \A g \in DOMAIN gens[l] :
               gens[l][g].pos = "rest" =>
                   /\ files_sent[l] >= 1
                   /\ in_interval_wait[l]
                   /\ Len(sent[l]) + 1 \in starts[l]
                   /\ current_offset[l] >= cfg.pcm.len

C17_Witness ==
    \E l \in Listeners :
        /\ Len(gens[l]) = 1
        /\ gens[l][1].pos = "rest"
        /\ files_sent[l] = 1
        /\ hist[1] = Event(l, "DONE", 0, "")
        /\ transients[l] >= 1

\* C18: from the step that cancels a listener on, whatever it was suspended in
\* (stagger, pacing delay, rest, backoff, the connection), the task is ended
\* and stays so: it holds no connection and no generator, no step adds an
\* event of it to the history, and it makes no connection attempt.
C18_CancelEnds ==
    [][\A l \in Listeners :
           l \in cancelled' =>
               /\ pc'[l] = "cancelled"
               /\ gens'[l] = <<>>
               /\ hist' = hist \/ hist'[1].lid # l
               /\ unexpected'[l] = unexpected[l]
               /\ transients'[l] = transients[l]
               /\ retry_count'[l] = retry_count[l]]_vars

\* Cancelled in the rest between two files, after a fault earlier on.
C18_Witness ==
    \E l \in Listeners :
        /\ l \in cancelled
        /\ pc[l] = "cancelled"
        /\ in_interval_wait[l]
        /\ hist[1] = Event(l, "DONE", 0, "")
        /\ transients[l] >= 1

\* C19 as claimed: a generator started while a rest is pending (the connection
\* was lost in the rest between two files) completes the rest before its
\* header frame; so when the header frame is the one frame sent on a
\* connection, no rest is pending any more.
C19_RestCompletedFirst ==
    \A l \in Listeners :
        \A g \in DOMAIN gens[l] :
            gens[l][g].pos = "hdr" /\ Len(sent[l]) = 1 => ~in_interval_wait[l]

\* The frames of the cycle under way on the connection of listener l.
CurrentCycle(l) ==
    LET a == CHOOSE b \in Begun(l) : \A c \in Begun(l) : c <= b
    IN SubSeq(sent[l], a, Len(sent[l]))

\* The file from its first byte to its last, as sent on one connection.
WholeFile(cyc) ==
    /\ Len(cyc) = 1 + Ceil(cfg.pcm.len, cfg.page)
    /\ IsHeaderFrame(cyc[1])
    /\ \A i \in 2..Len(cyc) :
           /\ frame_seq(cyc[i]) = i - 1
           /\ frame_payload(cyc[i]) =
                  Bytes(<<>>, (i - 2) * cfg.page, Min((i - 1) * cfg.page, cfg.pcm.len))

\* C20: files_sent of a listener grows, by 1, only in a step before which the
\* frames of the cycle under way on its present connection are the header
\* frame and all ceil(L / P) page frames in order; and the bytes accounted in
\* seconds_sent are never fewer than files_sent times L.
C20_WholeFileOnOneConnection ==
    [][\A l \in Listeners :
           /\ files_sent'[l] # files_sent[l] =>
                  /\ files_sent'[l] = files_sent[l] + 1
                  /\ Begun(l) # {}
                  /\ WholeFile(CurrentCycle(l))
           /\ seconds_sent'[l] >= files_sent'[l] * cfg.pcm.len]_vars

\* A file was completed after a connection was lost in the middle of the
\* file: the page sent before the loss is in seconds_sent, not in files_sent.
C20_Witness ==
    \E l \in Listeners :
        /\ files_sent[l] = 1
        /\ transients[l] >= 1
        /\ seconds_sent[l] > files_sent[l] * cfg.pcm.len
        /\ Len(gens[l]) = 1
        /\ gens[l][1].pos = "rest"

====
